---------------------------- MODULE Spec2Model ----------------------------
(***************************************************************************)
(* The approval-gated generation workflow of the Lazulite AI PPT generator *)
(* (the App component and the APIService it calls): prompt interpretation, *)
(* content extraction with fallback, the approval gate with per-product    *)
(* editing, generation submission and the status polling timer.            *)
(*                                                                         *)
(* Text is a sequence of one-character strings, so that the regular        *)
(* expressions, trim, split and join of the source are computed and not    *)
(* assumed.                                                                *)
(***************************************************************************)
EXTENDS Integers, Sequences, FiniteSets, TLC

(***************************************************************************)
(* Characters and the string functions the interpreter uses.               *)
(***************************************************************************)
LowerLetters ==
  <<"a","b","c","d","e","f","g","h","i","j","k","l","m",
    "n","o","p","q","r","s","t","u","v","w","x","y","z">>

UpperLetters ==
  <<"A","B","C","D","E","F","G","H","I","J","K","L","M",
    "N","O","P","Q","R","S","T","U","V","W","X","Y","Z">>

Digits == {"0","1","2","3","4","5","6","7","8","9"}

Letters == {LowerLetters[i] : i \in 1..26} \cup {UpperLetters[i] : i \in 1..26}

WhiteSpace == {" ", "\t", "\n"}

Quotes == {"\"", "'"}

\* The i flag of the patterns: a literal matches either case of a letter.
ToLower(c) ==
  IF \E i \in 1..26 : UpperLetters[i] = c
    THEN LowerLetters[CHOOSE i \in 1..26 : UpperLetters[i] = c]
    ELSE c

\* The character classes the five patterns use.
InClass(c, cls) ==
  CASE cls = "space"      -> c \in WhiteSpace
    [] cls = "quote"      -> c \in Quotes
    [] cls = "notquote"   -> c \notin Quotes
    [] cls = "alpha"      -> c \in Letters
    [] cls = "alphaspace" -> c \in Letters \cup WhiteSpace
    [] cls = "digit"      -> c \in Digits
    [] cls = "comma"      -> c = ","
    [] cls = "colon"      -> c = ":"
    [] cls = "s"          -> ToLower(c) = "s"
    [] cls = "prodchars"  -> c \in Letters \cup Digits \cup WhiteSpace \cup {","}

\* String.prototype.trim
RECURSIVE TrimLeft(_)
TrimLeft(s) ==
  IF s # <<>> /\ Head(s) \in WhiteSpace THEN TrimLeft(Tail(s)) ELSE s

RECURSIVE TrimRight(_)
TrimRight(s) ==
  IF s # <<>> /\ s[Len(s)] \in WhiteSpace
    THEN TrimRight(SubSeq(s, 1, Len(s) - 1))
    ELSE s

Trim(s) == TrimRight(TrimLeft(s))

\* String.prototype.split(','): the pieces between the commas, empty ones kept.
RECURSIVE SplitComma(_)
SplitComma(s) ==
  IF \E i \in 1..Len(s) : s[i] = ","
    THEN LET i == CHOOSE k \in 1..Len(s) :
                    s[k] = "," /\ \A j \in 1..(k - 1) : s[j] # ","
         IN  <<SubSeq(s, 1, i - 1)>> \o SplitComma(SubSeq(s, i + 1, Len(s)))
    ELSE <<s>>

\* Array.prototype.join(', ')
RECURSIVE JoinComma(_)
JoinComma(parts) ==
  IF parts = <<>> THEN <<>>
  ELSE IF Len(parts) = 1 THEN parts[1]
  ELSE parts[1] \o <<",", " ">> \o JoinComma(Tail(parts))

(***************************************************************************)
(* A backtracking matcher for the shape the five patterns share: one of a  *)
(* few literals, then a sequence of quantified character classes, some of  *)
(* them inside the capture group.  Quantifiers are greedy and give back    *)
(* one character at a time, as in the JavaScript engine.                   *)
(***************************************************************************)
LiteralAt(s, pos, lit) ==
  /\ pos + Len(lit) - 1 <= Len(s)
  /\ \A i \in 1..Len(lit) : ToLower(s[pos + i - 1]) = lit[i]

\* How many characters of the class follow pos, at most max.
RunLength(s, pos, cls, max) ==
  LET limit == IF Len(s) - pos + 1 < max THEN Len(s) - pos + 1 ELSE max
  IN  CHOOSE n \in 0..limit :
        /\ \A i \in 0..(n - 1) : InClass(s[pos + i], cls)
        /\ n = limit \/ ~InClass(s[pos + n], cls)

\* The positions where items k.. start, and where the match ends; <<>> when
\* items k.. cannot match at pos.
RECURSIVE MatchItems(_, _, _, _)
MatchItems(s, items, k, pos) ==
  IF k > Len(items) THEN <<pos>>
  ELSE
    LET it == items[k]
        longest == RunLength(s, pos, it.cls, it.max)
        Rest(n) == MatchItems(s, items, k + 1, pos + n)
        fits == {n \in it.min..longest : Rest(n) # <<>>}
    IN  IF fits = {} THEN <<>>
        ELSE <<pos>> \o Rest(CHOOSE n \in fits : \A m \in fits : m <= n)

\* The pattern at one start position: the first literal, in order, after which
\* the items match.
RECURSIVE MatchAt(_, _, _, _)
MatchAt(s, re, pos, alt) ==
  IF alt > Len(re.literals) THEN <<>>
  ELSE
    LET lit == re.literals[alt]
        m == IF LiteralAt(s, pos, lit)
               THEN MatchItems(s, re.items, 1, pos + Len(lit))
               ELSE <<>>
    IN  IF m # <<>> THEN m ELSE MatchAt(s, re, pos, alt + 1)

\* String.prototype.match without the g flag: the leftmost match.  The result
\* is [found, group], group being capture group 1.
Match(s, re) ==
  LET starts == {pos \in 1..Len(s) : MatchAt(s, re, pos, 1) # <<>>}
  IN  IF starts = {} THEN [found |-> FALSE, group |-> <<>>]
      ELSE LET first == CHOOSE pos \in starts : \A q \in starts : pos <= q
               m == MatchAt(s, re, first, 1)
           IN  [found |-> TRUE,
                group |-> SubSeq(s, m[re.capFrom], m[re.capTo + 1] - 1)]

\* An upper limit for the unbounded quantifiers: no text is longer.
Unbounded == 1000

Item(cls, min, max) == [cls |-> cls, min |-> min, max |-> max]

\* /(?:for|event|Event)\s*["']?([^"']+)["']?/i
EventNamePattern ==
  [literals |-> << <<"f","o","r">>, <<"e","v","e","n","t">>, <<"e","v","e","n","t">> >>,
   items    |-> << Item("space", 0, Unbounded), Item("quote", 0, 1),
                   Item("notquote", 1, Unbounded), Item("quote", 0, 1) >>,
   capFrom  |-> 3,
   capTo    |-> 3]

\* /(?:on|date)\s*([A-Za-z]+\s+\d{1,2},\s*\d{4})/i
EventDatePattern ==
  [literals |-> << <<"o","n">>, <<"d","a","t","e">> >>,
   items    |-> << Item("space", 0, Unbounded),
                   Item("alpha", 1, Unbounded), Item("space", 1, Unbounded),
                   Item("digit", 1, 2), Item("comma", 1, 1),
                   Item("space", 0, Unbounded), Item("digit", 4, 4) >>,
   capFrom  |-> 2,
   capTo    |-> 7]

\* /(?:in|at)\s*([A-Za-z\s]+)/i
EventLocationPattern ==
  [literals |-> << <<"i","n">>, <<"a","t">> >>,
   items    |-> << Item("space", 0, Unbounded), Item("alphaspace", 1, Unbounded) >>,
   capFrom  |-> 2,
   capTo    |-> 2]

\* /(?:salesperson|featuring)\s*([A-Za-z\s]+)/i
SalespersonPattern ==
  [literals |-> << <<"s","a","l","e","s","p","e","r","s","o","n">>,
                   <<"f","e","a","t","u","r","i","n","g">> >>,
   items    |-> << Item("space", 0, Unbounded), Item("alphaspace", 1, Unbounded) >>,
   capFrom  |-> 2,
   capTo    |-> 2]

\* /products?:\s*([A-Za-z0-9,\s]+)/i
ProductsPattern ==
  [literals |-> << <<"p","r","o","d","u","c","t">> >>,
   items    |-> << Item("s", 0, 1), Item("colon", 1, 1),
                   Item("space", 0, Unbounded), Item("prodchars", 1, Unbounded) >>,
   capFrom  |-> 4,
   capTo    |-> 4]

\* m ? m[1].trim() : ''
CapturedText(s, re) ==
  LET m == Match(s, re) IN IF m.found THEN Trim(m.group) ELSE <<>>

\* m ? m[1].split(',').map(p => p.trim()).filter(Boolean) : []
CapturedList(s, re) ==
  LET m == Match(s, re)
  IN  IF m.found
        THEN LET parts == SplitComma(m.group)
             IN  SelectSeq([i \in 1..Len(parts) |-> Trim(parts[i])],
                           LAMBDA p : p # <<>>)
        ELSE <<>>

extractPromptDetails(prompt) ==
  [eventName     |-> CapturedText(prompt, EventNamePattern),
   eventDate     |-> CapturedText(prompt, EventDatePattern),
   eventLocation |-> CapturedText(prompt, EventLocationPattern),
   salesperson   |-> CapturedText(prompt, SalespersonPattern),
   products      |-> CapturedList(prompt, ProductsPattern)]

REQUIRED_FIELDS ==
  << [key |-> "eventName",     label |-> "Event Name"],
     [key |-> "eventDate",     label |-> "Event Date"],
     [key |-> "eventLocation", label |-> "Event Location"],
     [key |-> "salesperson",   label |-> "Salesperson Name"],
     [key |-> "products",      label |-> "Products"] >>

\* A filter that keeps every field, present or not.
AllFields(details) == REQUIRED_FIELDS

\* REQUIRED_FIELDS.filter(...): an empty string and an empty list are missing.
MissingFields(details) ==
  SelectSeq(REQUIRED_FIELDS, LAMBDA field : details[field.key] = <<>>)

\* missingFields.map(f => f.label)
MissingLabels(details) ==
  LET missing == MissingFields(details)
  IN  [i \in 1..Len(missing) |-> missing[i].label]

(***************************************************************************)
(* Bounds of the model, and the inputs it draws.                           *)
(***************************************************************************)
\* The first clock reading; Date.now() is far above the welcome entry's id.
StartTime == 10

\* How far the clock advances.
MaxClock == 1

\* What the user does on the page and how often the polling timers fire,
\* together.  The callbacks of the calls these steps start are not counted.
MaxSteps == 4

PromptComplete ==
  <<"f","o","r"," ","X"," ","o","n"," ","M","a","y"," ","5",","," ","2","0","2","5"," ","i","n",
    " ","Y"," ","f","e","a","t","u","r","i","n","g"," ","Z"," ","p","r","o","d","u","c","t","s",
    ":"," ","A",","," ","B">>

PromptDubai ==
  <<"M","a","k","e"," ","s","l","i","d","e","s"," ","f","o","r"," ","D","u","b","a","i">>

PromptBlank == <<" ">>

\* A complete prompt for another product, sent and answered before the run
\* of SpecAfterRejection starts.
PromptEarlier ==
  <<"f","o","r"," ","X"," ","o","n"," ","M","a","y"," ","5",","," ","2","0","2","5"," ","i","n",
    " ","Y"," ","f","e","a","t","u","r","i","n","g"," ","Z"," ","p","r","o","d","u","c","t","s",
    ":"," ","C">>

\* The clock reading at which it was sent.
EarlierTime == StartTime - 4

\* What the user types into the prompt box.
PromptList == <<PromptComplete, PromptDubai, PromptBlank>>

Prompts == {PromptList[i] : i \in 1..Len(PromptList)}

\* What the user types into an edit field.
EditValues == {<<"e">>}

\* Error texts a failing service call carries.
ErrorTexts == {<<"Failed to fetch">>}

(***************************************************************************)
(* The state of the App component, the calls it has outstanding, and the   *)
(* history the properties are stated on.                                   *)
(***************************************************************************)
VARIABLES
  now,                  \* the clock Date.now() reads
  mounted,              \* the component tree is rendered
  messages,             \* useState<Message[]>
  inputText,            \* useState('')
  isLoading,            \* useState(false)
  pendingApproval,      \* useState<Message | null>
  editingProductIndex,  \* useState<number | null>
  editingContent,       \* useState<ProductContent | null>
  backendStatus,        \* useState('checking')
  probes,               \* healthCheck calls outstanding
  health,               \* the healthCheck call followed step by step, or Null
  extraction,           \* the extractProductContent call outstanding, or Null
  submissions,          \* the generatePPT calls outstanding, in call order
  pollers,              \* one per pollPPTStatus call: its interval and its queries
  steps,                \* history: user operations and timer ticks so far
  pendingSerial,        \* history: which PendingApproval is held (0: none)
  created,              \* history: PendingApprovals created so far
  resolutions,          \* history: approve and reject calls that took effect
  lastOp,               \* history: what the send, approval or edit handler did last
  interpretation        \* extractPromptDetails of each prompt the user types

appVars == <<messages, inputText, isLoading, pendingApproval, editingProductIndex,
             editingContent, backendStatus>>

callVars == <<probes, extraction, submissions, pollers>>

histVars == <<steps, pendingSerial, created, resolutions>>

vars == <<now, mounted, appVars, callVars, health, histVars, lastOp, interpretation>>

\* null and undefined
Null == [null |-> TRUE]

\* null for the product index; the indices of the model start at 1
NoIndex == 0

\* The object has the field, with a value other than undefined.
Has(obj, field) == field \in DOMAIN obj

\* The truthiness of an optional boolean field
Flag(obj, field) == Has(obj, field) /\ obj[field]

(***************************************************************************)
(* The entries of the conversation.  An id is the number whose decimal     *)
(* string the source stores; a text is the sequence of its fixed parts and *)
(* of the characters or parts inserted into them.                          *)
(***************************************************************************)
WelcomeMessage ==
  [id |-> 1, text |-> <<"Welcome to Lazulite AI PPT Generator!">>, sender |-> "ai",
   timestamp |-> StartTime]

GuidanceMessage(t, details) ==
  [id |-> t,
   text |-> <<"Please provide the following missing details in your prompt: ">>
              \o JoinComma([i \in 1..Len(MissingLabels(details)) |->
                              <<MissingLabels(details)[i]>>])
              \o <<".", "Reference prompt">>,
   sender |-> "ai", timestamp |-> t]

UserMessage(t, text) ==
  [id |-> t, text |-> text, sender |-> "user", timestamp |-> t]

ApprovalMessage(t, multiProductData) ==
  [id |-> t + 1,
   text |-> <<"I've extracted content for your products from the Lazulite website. Please review and approve:">>,
   sender |-> "ai", timestamp |-> t, approvalRequired |-> TRUE,
   multiProductData |-> multiProductData]

ExtractionFailedMessage(t, error) ==
  [id |-> t + 1, text |-> <<"Failed to extract product content: ">> \o error,
   sender |-> "ai", timestamp |-> t]

GeneratingMessage(t) ==
  [id |-> t + 2,
   text |-> <<"Content approved! Generating your PowerPoint presentation...">>,
   sender |-> "ai", timestamp |-> t, isGenerating |-> TRUE]

SubmissionFailedMessage(t, error) ==
  [id |-> t + 3, text |-> <<"Failed to start PPT generation: ">> \o error,
   sender |-> "ai", timestamp |-> t]

\* A rejection notice that carries the generation marker.
RejectionWithMarker(t) ==
  [id |-> t + 2,
   text |-> <<"Content not approved. You can modify the content using the edit options above, or provide new requirements.">>,
   sender |-> "ai", timestamp |-> t, isGenerating |-> TRUE]

RejectionMessage(t) ==
  [id |-> t + 2,
   text |-> <<"Content not approved. You can modify the content using the edit options above, or provide new requirements.">>,
   sender |-> "ai", timestamp |-> t]

SuccessMessage(t, url) ==
  [id |-> t + 4, text |-> <<"Your presentation has been generated successfully!">>,
   sender |-> "ai", timestamp |-> t, pptDownloadUrl |-> url]

JobFailedMessage(t, status) ==
  [id |-> t + 4,
   text |-> <<"PPT generation failed: ">>
              \o (IF Has(status, "error_message") /\ status.error_message # <<>>
                    THEN status.error_message ELSE <<"Unknown error">>),
   sender |-> "ai", timestamp |-> t]

StatusErrorMessage(t, error) ==
  [id |-> t + 4, text |-> <<"Error checking PPT status: ">> \o error,
   sender |-> "ai", timestamp |-> t]

\* A variant of the filter that drops the entries asking for approval too
WithoutGeneratingOrApproval(msgs) ==
  SelectSeq(msgs, LAMBDA m : ~Flag(m, "isGenerating") /\ ~Flag(m, "approvalRequired"))

\* prev.filter(m => !m.isGenerating)
WithoutGenerating(msgs) ==
  SelectSeq(msgs, LAMBDA m : ~Flag(m, "isGenerating"))

(***************************************************************************)
(* Content extraction.                                                     *)
(***************************************************************************)
\* The branch of App.extractProductContent for backendStatus 'unavailable':
\* an object with the four sections and no products list.
LocalFallbackContent(productNames) ==
  [overview |-> JoinComma(productNames)
                  \o <<" offer cutting-edge interactive technology solutions.">>,
   specifications |-> << <<"High-resolution 4K display with touch interface">>,
                         <<"AI-powered gesture recognition and facial detection">> >>,
   content_integration |->
     << <<"Seamless CMS integration with real-time content updates">>,
        <<"Multi-platform compatibility with cloud-based management">> >>,
   infrastructure_requirements |->
     << <<"Stable internet connection (minimum 50 Mbps)">>,
        <<"Dedicated power supply with backup systems">> >>]

\* index === 0 ? "single" : index === 1 ? "side_by_side" : "grid", the index
\* counted from 0
SimulatedLayout(index) ==
  IF index = 0 THEN "single" ELSE IF index = 1 THEN "side_by_side" ELSE "grid"

\* APIService.getSimulatedContent
getSimulatedContent(productNames) ==
  LET products ==
        [i \in 1..Len(productNames) |->
          [product_name |-> productNames[i],
           overview |-> productNames[i]
                          \o <<" offers cutting-edge interactive technology solutions">>,
           specifications |->
             << <<"High-resolution 4K display with multi-touch interface">>,
                <<"AI-powered facial detection and real-time analytics">> >>,
           content_integration |->
             << <<"Seamless CMS integration with real-time content updates and scheduling">>,
                <<"Multi-platform compatibility with cloud-based management dashboard">> >>,
           infrastructure_requirements |->
             << <<"Stable internet connection (minimum 50 Mbps) with dedicated network access">>,
                <<"Dedicated power supply (220V) with UPS backup and climate control">> >>,
           images |-> << <<"placeholder?text=">> \o productNames[i] \o <<"+Image+1">>,
                         <<"placeholder?text=">> \o productNames[i] \o <<"+Image+2">> >>,
           image_layout |-> SimulatedLayout(i - 1)]]
  IN  [products |-> products, total_products |-> Len(products),
       extraction_status |-> "completed"]

\* The answer of the extraction service to POST /api/extract-content: one
\* ProductContent per requested name, in the order of the request, with an
\* overview and two points per section.
LiveExtractionResponse(productNames) ==
  LET products ==
        [i \in 1..Len(productNames) |->
          [product_name |-> productNames[i],
           overview |-> <<"summary of ">> \o productNames[i],
           specifications |-> << <<"spec 1">>, <<"spec 2">> >>,
           content_integration |-> << <<"integration 1">>, <<"integration 2">> >>,
           infrastructure_requirements |-> << <<"requirement 1">>, <<"requirement 2">> >>,
           images |-> << <<"image of ">> \o productNames[i] >>,
           image_layout |-> "single"]]
  IN  [products |-> products, total_products |-> Len(products),
       extraction_status |-> "completed"]

\* How a call of APIService.extractProductContent can go: the service answers,
\* it answers with a non-success status, the transport fails, or (development
\* mode) the probe made first finds the backend down.
ExtractionOutcomes == {"ok", "not_ok", "transport_error", "probe_unavailable"}

\* APIService.extractProductContent: [raised, value].  Every failure inside
\* its try block is caught and answered with the simulated content.
APIService_extractProductContent(productNames, outcome) ==
  IF outcome = "ok"
    THEN [raised |-> FALSE, value |-> LiveExtractionResponse(productNames)]
    ELSE [raised |-> FALSE, value |-> getSimulatedContent(productNames)]

\* App.extractProductContent, the status being the one the handler's render saw
extractProductContent(productNames, status, outcome) ==
  IF status = "unavailable"
    THEN [raised |-> FALSE, value |-> LocalFallbackContent(productNames)]
    ELSE APIService_extractProductContent(productNames, outcome)

(***************************************************************************)
(* What the render shows.                                                  *)
(***************************************************************************)
\* MultiProductDisplay reads multiProductData.products.map: rendering an entry
\* whose data has no products list throws, and the tree is unmounted.
RenderThrows(msgs) ==
  \E k \in 1..Len(msgs) :
    Has(msgs[k], "multiProductData") /\ ~Has(msgs[k].multiProductData, "products")

\* disabled={isLoading || !!pendingApproval || !!editingContent}
InputDisabled == isLoading \/ pendingApproval # Null \/ editingContent # Null

\* isEditing={editingContent !== null && msg.id === pendingApproval?.id}
IsEditing(msg) ==
  editingContent # Null /\ pendingApproval # Null /\ msg.id = pendingApproval.id

\* isEditing && editingProductIndex === productIndex
IsEditingThisProduct(msg, productIndex) ==
  IsEditing(msg) /\ editingProductIndex = productIndex

\* The product cards on screen: entry k of the log, product i of its data.
ProductCards ==
  UNION { {<<k, i>> : i \in 1..Len(messages[k].multiProductData.products)} :
            k \in {j \in 1..Len(messages) :
                     /\ Has(messages[j], "multiProductData")
                     /\ Has(messages[j].multiProductData, "products")} }

\* A variant that shows the two buttons during an edit as well
ApprovalButtonsShownWhileEditing ==
  \E k \in 1..Len(messages) : Flag(messages[k], "approvalRequired")

\* {msg.approvalRequired && !editingContent && (the two buttons)}
ApprovalButtonsShown ==
  /\ editingContent = Null
  /\ \E k \in 1..Len(messages) : Flag(messages[k], "approvalRequired")

(***************************************************************************)
(* The initial state: the component is mounted, the welcome entry is in    *)
(* the log and the liveness probe of the mount effect is outstanding.      *)
(***************************************************************************)
Init ==
  /\ now = StartTime
  /\ mounted = TRUE
  /\ messages = <<WelcomeMessage>>
  /\ inputText = <<>>
  /\ isLoading = FALSE
  /\ pendingApproval = Null
  /\ editingProductIndex = NoIndex
  /\ editingContent = Null
  /\ backendStatus = "checking"
  /\ probes = 1
  /\ health = Null
  /\ extraction = Null
  /\ submissions = <<>>
  /\ pollers = <<>>
  /\ steps = 0
  /\ pendingSerial = 0
  /\ created = 0
  /\ resolutions = <<>>
  /\ lastOp = "other"
  /\ interpretation = [text \in Prompts |-> extractPromptDetails(text)]

\* What Date.now() can read next: the clock has stood still or has advanced.
ClockReadings == now..(StartTime + MaxClock)

\* extractPromptDetails(inputText), read from the table made at the start
PromptDetails(text) ==
  interpretation[text]

(***************************************************************************)
(* The liveness probe.                                                     *)
(***************************************************************************)
\* APIService.healthCheck never raises: a response that is not a success, a
\* transport failure, the abort after 5 seconds and a body that is not JSON
\* all give backend_available false.
ProbeOutcomes == {"ok", "not_ok", "transport_error", "timeout", "malformed_body"}

healthCheck(outcome) == [backend_available |-> outcome = "ok"]

\* checkBackendHealth, from its call of healthCheck on
ProbeDone(outcome) ==
  /\ probes > 0
  /\ probes' = probes - 1
  /\ backendStatus' =
       IF ~mounted THEN backendStatus
       ELSE IF healthCheck(outcome).backend_available THEN "available"
       ELSE "unavailable"
  /\ lastOp' = "other"
  /\ UNCHANGED <<interpretation, health, now, mounted, messages, inputText, isLoading, pendingApproval,
                 editingProductIndex, editingContent, extraction, submissions,
                 pollers, histVars>>

\* The Retry Connection button of the settings: checkBackendHealth up to its
\* call of healthCheck
RetryConnection ==
  /\ mounted
  /\ steps < MaxSteps
  /\ steps' = steps + 1
  /\ probes' = probes + 1
  /\ lastOp' = "other"
  /\ UNCHANGED <<interpretation, health, now, mounted, appVars, extraction, submissions, pollers,
                 pendingSerial, created, resolutions>>

(***************************************************************************)
(* Sending a prompt.                                                       *)
(***************************************************************************)
\* A guard that tests the text alone.
SendAcceptedUngated(text) ==
  Trim(text) # <<>>

\* if (!inputText.trim() || isLoading || pendingApproval) return;  negated
SendAccepted(text) ==
  Trim(text) # <<>> /\ ~isLoading /\ pendingApproval = Null

\* handleSendMessage up to its await, the prompt box holding text
handleSendMessage(text, t) ==
  IF ~SendAccepted(text)
    THEN /\ inputText' = text
         /\ lastOp' = "send_ignored"
         /\ UNCHANGED <<now, messages, isLoading, extraction>>
    ELSE
      LET details == PromptDetails(text)
      IN  IF MissingFields(details) # <<>>
            THEN /\ now' = t
                 /\ messages' = Append(messages, GuidanceMessage(t, details))
                 /\ inputText' = <<>>
                 /\ lastOp' = "send_guidance"
                 /\ UNCHANGED <<isLoading, extraction>>
            ELSE /\ now' = t
                 /\ messages' = Append(messages, UserMessage(t, text))
                 /\ inputText' = <<>>
                 /\ isLoading' = TRUE
                 /\ extraction' = [productNames |-> details.products,
                                   backendStatus |-> backendStatus]
                 /\ lastOp' = "send_extract"

\* The user types a prompt into the enabled prompt box and submits the form.
SendPrompt(text, t) ==
  /\ mounted
  /\ ~InputDisabled
  /\ steps < MaxSteps
  /\ steps' = steps + 1
  /\ handleSendMessage(text, t)
  /\ UNCHANGED <<interpretation, health, mounted, pendingApproval, editingProductIndex, editingContent,
                 backendStatus, probes, submissions, pollers, pendingSerial,
                 created, resolutions>>

\* handleSendMessage called with a text while the prompt box and the send
\* button are disabled.
SendPromptDisabled(text, t) ==
  /\ mounted
  /\ InputDisabled
  /\ steps < MaxSteps
  /\ steps' = steps + 1
  /\ handleSendMessage(text, t)
  /\ UNCHANGED <<interpretation, health, mounted, pendingApproval, editingProductIndex, editingContent,
                 backendStatus, probes, submissions, pollers, pendingSerial,
                 created, resolutions>>

\* handleSendMessage from the return of extractProductContent on
ExtractionDone(outcome, t) ==
  /\ extraction # Null
  /\ now' = t
  /\ LET result == extractProductContent(extraction.productNames,
                                         extraction.backendStatus, outcome)
         approvalMsg == ApprovalMessage(t, result.value)
     IN  IF result.raised
           THEN /\ messages' = Append(messages, ExtractionFailedMessage(t, result.value))
                /\ UNCHANGED <<pendingApproval, pendingSerial, created, mounted>>
           ELSE /\ messages' = Append(messages, approvalMsg)
                /\ pendingApproval' = approvalMsg
                /\ created' = created + 1
                /\ pendingSerial' = created + 1
                /\ mounted' = ~RenderThrows(messages')
  /\ isLoading' = FALSE
  /\ extraction' = Null
  /\ lastOp' = "other"
  /\ UNCHANGED <<interpretation, health, inputText, editingProductIndex, editingContent, backendStatus,
                 probes, submissions, pollers, steps, resolutions>>

(***************************************************************************)
(* The approval gate and the generation submission.                        *)
(***************************************************************************)
\* if (!pendingApproval || !pendingApproval.multiProductData) return;  negated
ApprovalAccepted ==
  pendingApproval # Null /\ Has(pendingApproval, "multiProductData")

\* pendingApproval.multiProductData.products
HeldProducts ==
  IF Has(pendingApproval.multiProductData, "products")
    THEN pendingApproval.multiProductData.products
    ELSE Null

\* The request handleApproval passes to APIService.generatePPT
GenerationRequest ==
  [prompt |-> inputText, approved_content |-> HeldProducts]

\* A variant whose guard applies to the approval alone: a rejection always
\* appends its entry.
handleApprovalRejectingUnguarded(approved, t) ==
  IF ~ApprovalAccepted /\ approved
    THEN /\ lastOp' = "approval_ignored"
         /\ UNCHANGED <<now, messages, pendingApproval, submissions, pendingSerial,
                        resolutions>>
    ELSE IF approved
      THEN /\ now' = t
           /\ messages' = Append(messages, GeneratingMessage(t))
           /\ submissions' = Append(submissions,
                                    [request |-> GenerationRequest,
                                     serial  |-> pendingSerial])
           /\ resolutions' = Append(resolutions,
                                    [serial |-> pendingSerial, approved |-> TRUE,
                                     request |-> GenerationRequest])
           /\ lastOp' = "approve"
           /\ UNCHANGED <<pendingApproval, pendingSerial>>
      ELSE /\ now' = t
           /\ messages' = Append(messages, RejectionMessage(t))
           /\ pendingApproval' = Null
           /\ pendingSerial' = 0
           /\ resolutions' = Append(resolutions,
                                    [serial |-> pendingSerial, approved |-> FALSE])
           /\ lastOp' = "reject"
           /\ UNCHANGED submissions

\* handleApproval(approved) up to its await (approved) or to its end (rejected)
handleApproval(approved, t) ==
  IF ~ApprovalAccepted
    THEN /\ lastOp' = "approval_ignored"
         /\ UNCHANGED <<now, messages, pendingApproval, submissions, pendingSerial,
                        resolutions>>
    ELSE IF approved
      THEN /\ now' = t
           /\ messages' = Append(messages, GeneratingMessage(t))
           /\ submissions' = Append(submissions,
                                    [request |-> GenerationRequest,
                                     serial  |-> pendingSerial])
           /\ resolutions' = Append(resolutions,
                                    [serial |-> pendingSerial, approved |-> TRUE,
                                     request |-> GenerationRequest])
           /\ lastOp' = "approve"
           /\ UNCHANGED <<pendingApproval, pendingSerial>>
      ELSE /\ now' = t
           /\ messages' = Append(messages, RejectionMessage(t))
           /\ pendingApproval' = Null
           /\ pendingSerial' = 0
           /\ resolutions' = Append(resolutions,
                                    [serial |-> pendingSerial, approved |-> FALSE])
           /\ lastOp' = "reject"
           /\ UNCHANGED submissions

\* The Approve & Generate PPT button of an entry that asks for approval
Approve(t) ==
  /\ mounted
  /\ ApprovalButtonsShown
  /\ steps < MaxSteps
  /\ steps' = steps + 1
  /\ handleApproval(TRUE, t)
  /\ UNCHANGED <<interpretation, health, mounted, inputText, isLoading, editingProductIndex,
                 editingContent, backendStatus, probes, extraction, pollers,
                 created>>

\* The Reject button of an entry that asks for approval
Reject(t) ==
  /\ mounted
  /\ ApprovalButtonsShown
  /\ steps < MaxSteps
  /\ steps' = steps + 1
  /\ handleApproval(FALSE, t)
  /\ UNCHANGED <<interpretation, health, mounted, inputText, isLoading, editingProductIndex,
                 editingContent, backendStatus, probes, extraction, pollers,
                 created>>

\* How a call of APIService.generatePPT can end: a task id, or an Error raised
\* for a response that is not a success or for a transport failure.
SubmissionOutcomes ==
  {[raised |-> FALSE]} \cup {[raised |-> TRUE, error |-> e] : e \in ErrorTexts}

RemoveAt(seq, i) == SubSeq(seq, 1, i - 1) \o SubSeq(seq, i + 1, Len(seq))

\* pollPPTStatus(taskId): setInterval; nothing is queried before the first tick.
\* History of the job: the PendingApproval it was submitted for, the answers
\* its callbacks have seen and the entries they have appended.
NewPoller(taskId, serial) ==
  [taskId |-> taskId, active |-> TRUE, inFlight |-> 0,
   serial |-> serial, observed |-> <<>>, entries |-> <<>>]

\* handleApproval(true) from the return of generatePPT on; the service names
\* the task.  A state setter of an unmounted component does nothing.
SubmissionDone(i, outcome, t) ==
  /\ i \in 1..Len(submissions)
  /\ now' = IF outcome.raised THEN t ELSE now
  /\ submissions' = RemoveAt(submissions, i)
  /\ IF outcome.raised
       THEN /\ messages' = IF mounted
                             THEN Append(messages,
                                         SubmissionFailedMessage(t, outcome.error))
                             ELSE messages
            /\ UNCHANGED pollers
       ELSE /\ pollers' = Append(pollers,
                                 NewPoller(Len(pollers) + 1, submissions[i].serial))
            /\ UNCHANGED messages
  /\ pendingApproval' = IF mounted THEN Null ELSE pendingApproval
  /\ pendingSerial' = IF mounted THEN 0 ELSE pendingSerial
  /\ lastOp' = "other"
  /\ UNCHANGED <<interpretation, health, mounted, inputText, isLoading, editingProductIndex,
                 editingContent, backendStatus, probes, extraction, steps,
                 created, resolutions>>

(***************************************************************************)
(* Polling.                                                                *)
(***************************************************************************)
DownloadUrl(taskId) == <<"/download/", ToString(taskId)>>

\* What a call of APIService.checkPPTStatus can return for a task: any value
\* of the type TaskStatus, or an Error raised for a response that is not a
\* success or for a transport failure.
StatusOutcomes(taskId) ==
  {[raised |-> FALSE, status |-> st] :
     st \in {[status |-> "pending"], [status |-> "processing"],
             [status |-> "completed", download_url |-> DownloadUrl(taskId)],
             [status |-> "completed"],
             [status |-> "failed", error_message |-> <<"render crashed">>],
             [status |-> "failed"]}}
  \cup {[raised |-> TRUE, error |-> e] : e \in ErrorTexts}

\* The callback of the interval up to its await: one status query is sent.
PollTick(j) ==
  /\ j \in 1..Len(pollers)
  /\ pollers[j].active
  /\ steps < MaxSteps
  /\ steps' = steps + 1
  /\ pollers' = [pollers EXCEPT ![j].inFlight = @ + 1]
  /\ lastOp' = "other"
  /\ UNCHANGED <<interpretation, health, now, mounted, appVars, probes, extraction, submissions,
                 pendingSerial, created, resolutions>>

\* The answers that end a job: a completed or failed status, or an Error.
Conclusive(outcome) ==
  outcome.raised \/ outcome.status.status \in {"completed", "failed"}

\* A variant of the branches in which every status but pending ends the job:
\* a status that is neither pending nor completed with a reference is taken
\* for a failure.
StatusBranchEager(outcome) ==
  IF outcome.raised THEN "error"
  ELSE IF outcome.status.status = "completed"
          /\ Has(outcome.status, "download_url")
          /\ outcome.status.download_url # <<>> THEN "success"
  ELSE IF outcome.status.status # "pending" THEN "failed"
  ELSE "waiting"

\* The branch the callback takes on the outcome of its query.
StatusBranch(outcome) ==
  IF outcome.raised THEN "error"
  ELSE IF outcome.status.status = "completed"
          /\ Has(outcome.status, "download_url")
          /\ outcome.status.download_url # <<>> THEN "success"
  ELSE IF outcome.status.status = "failed" THEN "failed"
  ELSE "waiting"

\* The entry the callback appends on a branch that ends the polling.
StatusEntry(outcome, t) ==
  CASE StatusBranch(outcome) = "error"   -> StatusErrorMessage(t, outcome.error)
    [] StatusBranch(outcome) = "success" -> SuccessMessage(t, outcome.status.download_url)
    [] StatusBranch(outcome) = "failed"  -> JobFailedMessage(t, outcome.status)

\* The callback of the interval from the return of checkPPTStatus on.
PollResponse(j, outcome, t) ==
  /\ j \in 1..Len(pollers)
  /\ pollers[j].inFlight > 0
  /\ now' = IF StatusBranch(outcome) # "waiting" THEN t ELSE now
  /\ LET branch == StatusBranch(outcome)
         ends == branch # "waiting"
     IN  /\ pollers' =
               [pollers EXCEPT
                  ![j].inFlight = @ - 1,
                  ![j].active = IF ends THEN FALSE ELSE @,
                  ![j].observed = IF Conclusive(outcome)
                                    THEN Append(@, outcome) ELSE @,
                  ![j].entries = IF ends /\ mounted
                                   THEN Append(@, StatusEntry(outcome, t)) ELSE @]
         /\ messages' =
               IF ends /\ mounted
                 THEN Append(WithoutGenerating(messages), StatusEntry(outcome, t))
                 ELSE messages
         /\ lastOp' = IF ends THEN "other" ELSE "poll_waiting"
  /\ UNCHANGED <<interpretation, health, mounted, inputText, isLoading, pendingApproval,
                 editingProductIndex, editingContent, backendStatus, probes,
                 extraction, submissions, histVars>>

(***************************************************************************)
(* Editing a product of an extraction result.                              *)
(***************************************************************************)
\* handleEditContent(product, productIndex), from the Edit button of a card
\* that is not the one being edited
BeginEdit(k, i) ==
  /\ mounted
  /\ <<k, i>> \in ProductCards
  /\ ~IsEditingThisProduct(messages[k], i)
  /\ steps < MaxSteps
  /\ steps' = steps + 1
  /\ editingContent' = messages[k].multiProductData.products[i]
  /\ editingProductIndex' = i
  /\ lastOp' = "begin_edit"
  /\ UNCHANGED <<interpretation, health, now, mounted, messages, inputText, isLoading, pendingApproval,
                 backendStatus, callVars, pendingSerial, created, resolutions>>

\* The card that shows the edit fields and the Save and Cancel buttons
EditingCardShown ==
  \E c \in ProductCards : IsEditingThisProduct(messages[c[1]], c[2])

ListFields == {"specifications", "content_integration", "infrastructure_requirements"}

\* The points of a section the edit fields show: editingContent[field].map
PointIndices(field) ==
  IF editingContent = Null THEN {} ELSE DOMAIN editingContent[field]

\* onChange of the overview field: prev ? {...prev, overview: value} : null
ChangeOverview(value) ==
  /\ mounted
  /\ EditingCardShown
  /\ steps < MaxSteps
  /\ steps' = steps + 1
  /\ editingContent' = [editingContent EXCEPT !.overview = value]
  /\ lastOp' = "other"
  /\ UNCHANGED <<interpretation, health, now, mounted, messages, inputText, isLoading, pendingApproval,
                 editingProductIndex, backendStatus, callVars, pendingSerial,
                 created, resolutions>>

\* onChange of point idx of a section: a copy of the section of the working
\* copy with the point replaced
ChangePoint(field, idx, value) ==
  /\ mounted
  /\ EditingCardShown
  /\ steps < MaxSteps
  /\ idx \in PointIndices(field)
  /\ steps' = steps + 1
  /\ editingContent' = [editingContent EXCEPT ![field] = [@ EXCEPT ![idx] = value]]
  /\ lastOp' = "other"
  /\ UNCHANGED <<interpretation, health, now, mounted, messages, inputText, isLoading, pendingApproval,
                 editingProductIndex, backendStatus, callVars, pendingSerial,
                 created, resolutions>>

\* A variant of the entry handleSaveEdit builds, in which the working copy is
\* written to every product and not only to the one being edited
UpdatedMessageAllSlots ==
  [pendingApproval EXCEPT
     !.multiProductData.products = [idx \in DOMAIN @ |-> editingContent]]

\* The entry handleSaveEdit builds from the PendingApproval
UpdatedMessage ==
  [pendingApproval EXCEPT
     !.multiProductData.products =
        [idx \in DOMAIN @ |-> IF idx = editingProductIndex THEN editingContent
                              ELSE @[idx]]]

\* handleSaveEdit, from the Save Changes button
SaveEdit ==
  /\ mounted
  /\ EditingCardShown
  /\ IF editingContent = Null \/ pendingApproval = Null
       THEN UNCHANGED <<messages, pendingApproval, editingContent, editingProductIndex>>
       ELSE /\ messages' = [k \in 1..Len(messages) |->
                              IF messages[k].id = pendingApproval.id
                                THEN UpdatedMessage ELSE messages[k]]
            /\ pendingApproval' = UpdatedMessage
            /\ editingContent' = Null
            /\ editingProductIndex' = NoIndex
  /\ steps < MaxSteps
  /\ steps' = steps + 1
  /\ lastOp' = "save_edit"
  /\ UNCHANGED <<interpretation, health, now, mounted, inputText, isLoading, backendStatus,
                 callVars, pendingSerial, created, resolutions>>

\* A variant of the Cancel button that keeps the working copy: it does what
\* the Save Changes button does
CancelEditSaving == SaveEdit

\* handleCancelEdit, from the Cancel button
CancelEdit ==
  /\ mounted
  /\ EditingCardShown
  /\ editingContent' = Null
  /\ editingProductIndex' = NoIndex
  /\ steps < MaxSteps
  /\ steps' = steps + 1
  /\ lastOp' = "cancel_edit"
  /\ UNCHANGED <<interpretation, health, now, mounted, messages, inputText, isLoading,
                 pendingApproval, backendStatus, callVars, pendingSerial, created,
                 resolutions>>

(***************************************************************************)
(* The program: what the user can do on the rendered page, and the         *)
(* callbacks of the outstanding calls and timers.                          *)
(***************************************************************************)
Next ==
  \/ \E outcome \in ProbeOutcomes : ProbeDone(outcome)
  \/ RetryConnection
  \/ \E text \in Prompts, t \in ClockReadings : SendPrompt(text, t)
  \/ \E outcome \in ExtractionOutcomes, t \in ClockReadings :
       ExtractionDone(outcome, t)
  \/ \E t \in ClockReadings : Approve(t)
  \/ \E t \in ClockReadings : Reject(t)
  \/ \E i \in 1..Len(submissions), outcome \in SubmissionOutcomes,
        t \in ClockReadings : SubmissionDone(i, outcome, t)
  \/ \E j \in 1..Len(pollers) : PollTick(j)
  \/ \E j \in 1..Len(pollers), t \in ClockReadings :
       \E outcome \in StatusOutcomes(pollers[j].taskId) :
         PollResponse(j, outcome, t)
  \/ \E card \in ProductCards : BeginEdit(card[1], card[2])
  \/ \E value \in EditValues : ChangeOverview(value)
  \/ \E field \in ListFields, value \in EditValues :
       \E idx \in PointIndices(field) : ChangePoint(field, idx, value)
  \/ SaveEdit
  \/ CancelEdit

Spec == Init /\ [][Next]_vars

\* The send handler called whatever the page shows, also while the prompt box
\* and the send button are disabled, together with every handler and callback
\* that writes what its guard reads: isLoading, pendingApproval and, for the
\* controls, editingContent.
NextDirect ==
  \/ \E outcome \in ProbeOutcomes : ProbeDone(outcome)
  \/ \E text \in Prompts, t \in ClockReadings : SendPrompt(text, t)
  \/ \E text \in Prompts, t \in ClockReadings : SendPromptDisabled(text, t)
  \/ \E outcome \in ExtractionOutcomes, t \in ClockReadings :
       ExtractionDone(outcome, t)
  \/ \E t \in ClockReadings : Approve(t)
  \/ \E t \in ClockReadings : Reject(t)
  \/ \E i \in 1..Len(submissions), outcome \in SubmissionOutcomes,
        t \in ClockReadings : SubmissionDone(i, outcome, t)
  \/ \E card \in ProductCards : BeginEdit(card[1], card[2])
  \/ SaveEdit
  \/ CancelEdit

SpecDirect == Init /\ [][NextDirect]_vars

(***************************************************************************)
(* The page with an earlier extraction result in the log: the user has     *)
(* sent PromptEarlier, the extraction has returned the simulated content   *)
(* and the user has rejected it, all at EarlierTime; the clock has moved   *)
(* on to StartTime and the liveness probe of the mount effect has not      *)
(* returned.  The steps are counted from this state.                       *)
(***************************************************************************)
InitAfterRejection ==
  /\ now = StartTime
  /\ mounted = TRUE
  /\ messages =
       <<[WelcomeMessage EXCEPT !.timestamp = EarlierTime],
         UserMessage(EarlierTime, PromptEarlier),
         ApprovalMessage(EarlierTime,
                         getSimulatedContent(
                           extractPromptDetails(PromptEarlier).products)),
         RejectionMessage(EarlierTime)>>
  /\ inputText = <<>>
  /\ isLoading = FALSE
  /\ pendingApproval = Null
  /\ editingProductIndex = NoIndex
  /\ editingContent = Null
  /\ backendStatus = "checking"
  /\ probes = 1
  /\ health = Null
  /\ extraction = Null
  /\ submissions = <<>>
  /\ pollers = <<>>
  /\ steps = 0
  /\ pendingSerial = 0
  /\ created = 1
  /\ resolutions = <<[serial |-> 1, approved |-> FALSE]>>
  /\ lastOp = "reject"
  /\ interpretation = [text \in Prompts |-> extractPromptDetails(text)]

SpecAfterRejection == InitAfterRejection /\ [][Next]_vars

(***************************************************************************)
(* The page after a job has ended while the next prompt was being          *)
(* extracted: the user has sent PromptEarlier at JobTime, the extraction   *)
(* has returned the simulated content and the user has approved it; the    *)
(* submission has returned a task id, and while the job was polled the     *)
(* user has sent PromptComplete at ResentTime; the status service has      *)
(* reported the job completed at EndTime, and the extraction of the second *)
(* prompt is outstanding at StartTime.  Of the steps of the user only the  *)
(* send of the second prompt is counted.                                   *)
(***************************************************************************)
JobTime == StartTime - 8

ResentTime == StartTime - 5

EndTime == StartTime - 3

\* The extraction result of the earlier prompt
EarlierContent ==
  getSimulatedContent(extractPromptDetails(PromptEarlier).products)

\* The answer of the status service that ended the job
EndAnswer ==
  [raised |-> FALSE,
   status |-> [status |-> "completed", download_url |-> DownloadUrl(1)]]

InitAfterJob ==
  /\ interpretation = [text \in Prompts |-> extractPromptDetails(text)]
  /\ now = StartTime
  /\ mounted = TRUE
  /\ messages =
       <<[WelcomeMessage EXCEPT !.timestamp = JobTime],
         UserMessage(JobTime, PromptEarlier),
         ApprovalMessage(JobTime, EarlierContent),
         UserMessage(ResentTime, PromptComplete),
         StatusEntry(EndAnswer, EndTime)>>
  /\ inputText = <<>>
  /\ isLoading = TRUE
  /\ pendingApproval = Null
  /\ editingProductIndex = NoIndex
  /\ editingContent = Null
  /\ backendStatus = "checking"
  /\ probes = 1
  /\ health = Null
  /\ extraction = [productNames |-> PromptDetails(PromptComplete).products,
                   backendStatus |-> "checking"]
  /\ submissions = <<>>
  /\ pollers = <<[NewPoller(1, 1) EXCEPT
                    !.active = FALSE,
                    !.observed = <<EndAnswer>>,
                    !.entries = <<StatusEntry(EndAnswer, EndTime)>>]>>
  /\ steps = 1
  /\ pendingSerial = 0
  /\ created = 1
  /\ resolutions = <<[serial |-> 1, approved |-> TRUE,
                      request |-> [prompt |-> <<>>,
                                   approved_content |-> EarlierContent.products]]>>
  /\ lastOp = "other"

SpecAfterJob == InitAfterJob /\ [][Next]_vars

(***************************************************************************)
(* The page with an extraction outstanding, for every list of up to        *)
(* MaxProducts product names: the user has sent a complete prompt naming   *)
(* the products, and the call of the extraction service returns.           *)
(***************************************************************************)
\* The longest product list of a prompt.
MaxProducts == 4

\* The names a prompt lists.
NameChoices == {<<"A">>, <<"B">>, <<"C">>}

ProductLists == UNION {[1..n -> NameChoices] : n \in 1..MaxProducts}

\* The complete prompt that lists the names: PromptComplete with another list
PromptFor(productNames) ==
  SubSeq(PromptComplete, 1, Len(PromptComplete) - 4) \o JoinComma(productNames)

InitExtracting ==
  /\ interpretation = [text \in Prompts |-> extractPromptDetails(text)]
  /\ now = StartTime
  /\ mounted = TRUE
  /\ \E productNames \in ProductLists :
       /\ messages = <<WelcomeMessage,
                       UserMessage(StartTime, PromptFor(productNames))>>
       /\ extraction = [productNames |-> productNames,
                        backendStatus |-> "checking"]
  /\ inputText = <<>>
  /\ isLoading = TRUE
  /\ pendingApproval = Null
  /\ editingProductIndex = NoIndex
  /\ editingContent = Null
  /\ backendStatus = "checking"
  /\ probes = 1
  /\ health = Null
  /\ submissions = <<>>
  /\ pollers = <<>>
  /\ steps = 1
  /\ pendingSerial = 0
  /\ created = 0
  /\ resolutions = <<>>
  /\ lastOp = "send_extract"

NextExtracting ==
  \E outcome \in ExtractionOutcomes, t \in ClockReadings :
    ExtractionDone(outcome, t)

SpecExtracting == InitExtracting /\ [][NextExtracting]_vars

(***************************************************************************)
(* APIService.healthCheck followed step by step on a clock of seconds: the *)
(* abort timer, the fetch, and the reading of the body after it.           *)
(***************************************************************************)
\* setTimeout(() => controller.abort(), 5000)
HealthTimeout == 5

\* the seconds the clock of the probe runs
MaxWait == 7

\* the second of an event that does not happen while the clock runs
Never == MaxWait + 1

\* What the request to /health meets: the second fetch settles at and how,
\* the second the body has arrived at and what it holds.
Wires ==
  {w \in [fetchAt : 0..Never, response : {"ok", "not_ok", "transport_error"},
          bodyAt : 0..Never, body : {"json", "malformed"}] :
     w.bodyAt >= w.fetchAt}

\* The page has loaded and its first healthCheck call has armed the timer and
\* started the fetch.
InitProbing ==
  /\ interpretation = [text \in Prompts |-> extractPromptDetails(text)]
  /\ now = StartTime
  /\ mounted = TRUE
  /\ messages = <<WelcomeMessage>>
  /\ inputText = <<>>
  /\ isLoading = FALSE
  /\ pendingApproval = Null
  /\ editingProductIndex = NoIndex
  /\ editingContent = Null
  /\ backendStatus = "checking"
  /\ probes = 1
  /\ health \in {[wire |-> w, elapsed |-> 0, timer |-> "armed", pc |-> "fetch",
                  outcome |-> "none"] : w \in Wires}
  /\ extraction = Null
  /\ submissions = <<>>
  /\ pollers = <<>>
  /\ steps = 0
  /\ pendingSerial = 0
  /\ created = 0
  /\ resolutions = <<>>
  /\ lastOp = "other"

\* The event of the call that is due at this second.
Due(event) ==
  CASE event = "fetch" ->
         health.pc = "fetch" /\ health.wire.fetchAt = health.elapsed
    [] event = "abort" ->
         health.timer = "armed" /\ health.elapsed = HealthTimeout
    [] event = "body" ->
         health.pc = "json" /\ health.wire.bodyAt = health.elapsed

\* A second passes: no event of the call is due.
Second ==
  /\ health.elapsed < MaxWait
  /\ health.pc # "returned" \/ health.timer = "armed"
  /\ \A event \in {"fetch", "abort", "body"} : ~Due(event)
  /\ health' = [health EXCEPT !.elapsed = @ + 1]
  /\ UNCHANGED <<now, mounted, appVars, callVars, histVars, lastOp, interpretation>>

\* await fetch(...) settles. A rejection goes to the catch, which returns
\* backend_available false and leaves the timer armed; a response clears the
\* timer, and one that is not ok returns backend_available false.
FetchSettles ==
  /\ Due("fetch")
  /\ health' =
       CASE health.wire.response = "transport_error" ->
              [health EXCEPT !.pc = "returned", !.outcome = "transport_error"]
         [] health.wire.response = "not_ok" ->
              [health EXCEPT !.timer = "cleared", !.pc = "returned",
                             !.outcome = "not_ok"]
         [] OTHER ->
              [health EXCEPT !.timer = "cleared", !.pc = "json"]
  /\ UNCHANGED <<now, mounted, appVars, callVars, histVars, lastOp, interpretation>>

\* The timer fires: controller.abort(). A fetch still waiting rejects with an
\* AbortError, and the catch returns backend_available false.
AbortFires ==
  /\ Due("abort")
  /\ health' =
       IF health.pc = "fetch"
       THEN [health EXCEPT !.timer = "fired", !.pc = "returned",
                           !.outcome = "timeout"]
       ELSE [health EXCEPT !.timer = "fired"]
  /\ UNCHANGED <<now, mounted, appVars, callVars, histVars, lastOp, interpretation>>

\* await response.json() settles: the body is the data returned with
\* backend_available true, or the rejection goes to the catch.
JsonSettles ==
  /\ Due("body")
  /\ health' = [health EXCEPT !.pc = "returned",
                              !.outcome = IF health.wire.body = "json" THEN "ok"
                                          ELSE "malformed_body"]
  /\ UNCHANGED <<now, mounted, appVars, callVars, histVars, lastOp, interpretation>>

\* checkBackendHealth goes on with what healthCheck has returned.
ProbeReturns ==
  /\ health.pc = "returned"
  /\ ProbeDone(health.outcome)

NextProbing ==
  \/ Second
  \/ FetchSettles
  \/ AbortFires
  \/ JsonSettles
  \/ ProbeReturns

SpecProbing == InitProbing /\ [][NextProbing]_vars

(***************************************************************************)
(* The interpretation of one typed prompt: the page has loaded and the     *)
(* user sends the reference prompt, or a prompt that is complete but for   *)
(* its products and ends with a list of up to MaxItems items.              *)
(***************************************************************************)
referencePrompt ==
  <<"G","e","n","e","r","a","t","e"," ","a"," ","P","o","w","e","r","P","o",
    "i","n","t"," ","f","o","r"," ","t","h","e"," ","\"","O","p","e","n",
    " ","H","o","u","s","e"," ","E","v","e","n","t","\""," ","o","n"," ",
    "A","u","g","u","s","t"," ","1","1",","," ","2","0","2","5"," ","i","n",
    " ","D","u","b","a","i"," ","f","e","a","t","u","r","i","n","g"," ","s",
    "a","l","e","s","p","e","r","s","o","n"," ","J","a","s","m","e","e","t",
    " ","K","a","u","r"," ","a","n","d"," ","s","l","i","d","e","s"," ","o",
    "n"," ","t","h","e"," ","p","r","o","d","u","c","t","s",":"," ","A","I",
    " ","P","h","o","t","o","b","o","o","t","h",","," ","K","i","n","e","t",
    "i","c"," ","C","e","i","l","i","n","g",","," ","a","n","d"," ","K","i",
    "n","e","t","i","c"," ","B","l","o","o","m","i","n","g"," ","F","l","o",
    "w","e","r",".">>

\* How many items the list after "products:" has.
MaxItems == 3

\* What stands between the commas: a name, a name of two words, nothing, a
\* name with a hyphen.
ItemChoices == {<<"A">>, <<"A", " ", "B">>, <<>>, <<"A", "-", "B">>}

\* The texts after "products: "
ProductTexts ==
  {JoinComma(items) : items \in UNION {[1..n -> ItemChoices] : n \in 1..MaxItems}}

TypedPrompts ==
  {referencePrompt}
    \cup {SubSeq(PromptComplete, 1, Len(PromptComplete) - 4) \o tail :
            tail \in ProductTexts}

InitInterpreting ==
  /\ \E prompt \in TypedPrompts :
       interpretation = [text \in {prompt} |-> extractPromptDetails(text)]
  /\ now = StartTime
  /\ mounted = TRUE
  /\ messages = <<WelcomeMessage>>
  /\ inputText = <<>>
  /\ isLoading = FALSE
  /\ pendingApproval = Null
  /\ editingProductIndex = NoIndex
  /\ editingContent = Null
  /\ backendStatus = "checking"
  /\ probes = 1
  /\ health = Null
  /\ extraction = Null
  /\ submissions = <<>>
  /\ pollers = <<>>
  /\ steps = 0
  /\ pendingSerial = 0
  /\ created = 0
  /\ resolutions = <<>>
  /\ lastOp = "other"

NextInterpreting ==
  \/ \E text \in DOMAIN interpretation, t \in ClockReadings : SendPrompt(text, t)
  \/ \E outcome \in ExtractionOutcomes, t \in ClockReadings :
       ExtractionDone(outcome, t)

SpecInterpreting == InitInterpreting /\ [][NextInterpreting]_vars

(***************************************************************************)
(* Properties of the approval gate.                                        *)
(***************************************************************************)
\* The approve and reject calls that took effect on PendingApproval number s
ResolutionsOf(s) == {r \in 1..Len(resolutions) : resolutions[r].serial = s}

\* The approve calls among them: each one calls the submission service once.
ApprovalsOf(s) == {r \in ResolutionsOf(s) : resolutions[r].approved}

\* A step in which an approve call took effect
ApproveStep ==
  /\ Len(resolutions') = Len(resolutions) + 1
  /\ resolutions'[Len(resolutions')].approved

\* A step in which a reject call took effect
RejectStep ==
  /\ Len(resolutions') = Len(resolutions) + 1
  /\ ~resolutions'[Len(resolutions')].approved

\* C1: for an approved PendingApproval the generation-submission service is
\* called exactly once, with the products the PendingApproval holds when
\* approve() is called, whatever the user does while the submission is
\* outstanding.
C1_SubmittedExactlyOnce ==
  [][ApproveStep =>
       /\ Cardinality({r \in 1..Len(resolutions') :
                         /\ resolutions'[r].approved
                         /\ resolutions'[r].serial = pendingSerial}) = 1
       /\ \E call \in {submissions'[Len(submissions')]} :
            /\ submissions' = Append(submissions, call)
            /\ call.request.approved_content
                 = pendingApproval.multiProductData.products]_vars

\* C2: each PendingApproval is resolved exactly once: at most one approve or
\* reject outcome is recorded for it, and once it is resolved it is no longer
\* the PendingApproval.
C2_ResolvedOnce ==
  \A s \in 1..created :
    /\ Cardinality(ResolutionsOf(s)) <= 1
    /\ ResolutionsOf(s) # {} => pendingSerial # s

\* C3: reject() sets PendingApproval to none and appends one rejection notice,
\* an entry of the assistant that is no generation marker and asks for no
\* approval; it calls no submission and starts no polling.
C3_RejectEffect ==
  [][RejectStep =>
       /\ pendingApproval # Null
       /\ pendingApproval' = Null
       /\ \E m \in {messages'[Len(messages')]} :
            /\ messages' = Append(messages, m)
            /\ m.sender = "ai"
            /\ ~Has(m, "isGenerating")
            /\ ~Has(m, "approvalRequired")
            /\ ~Has(m, "multiProductData")
       /\ submissions' = submissions
       /\ pollers' = pollers]_vars

\* A PendingApproval has been rejected: none is held, the notice is the last
\* entry, and nothing was submitted or polled.
C3_Witness ==
  /\ lastOp = "reject"
  /\ pendingApproval = Null
  /\ resolutions # <<>>
  /\ ~resolutions[Len(resolutions)].approved
  /\ submissions = <<>>
  /\ pollers = <<>>

\* A step of the send handler
SendStep ==
  /\ steps' = steps + 1
  /\ lastOp' \in {"send_ignored", "send_guidance", "send_extract"}

\* C4: there is at most one PendingApproval (none is created while one is held
\* or while none can be asked for), and a prompt sent while a PendingApproval
\* is held or an extraction is loading is ignored: no extraction is called,
\* and the log and the PendingApproval stay as they are.
C4_SendIgnoredWhileBusy ==
  /\ [](extraction # Null => pendingApproval = Null /\ isLoading)
  /\ [][created' # created => pendingApproval = Null /\ extraction # Null]_vars
  /\ [][(SendStep /\ (pendingApproval # Null \/ isLoading)) =>
          /\ lastOp' = "send_ignored"
          /\ UNCHANGED <<messages, pendingApproval, extraction, isLoading,
                         created>>]_vars

\* The send handler was called with a complete prompt while a PendingApproval
\* was held, and did nothing.
C4_Witness ==
  /\ lastOp = "send_ignored"
  /\ inputText = PromptComplete
  /\ pendingApproval # Null
  /\ extraction = Null

(***************************************************************************)
(* Properties of the prompt interpretation.                                *)
(***************************************************************************)
\* The labels of the five fields, in the canonical order, each with its field
CanonicalLabels ==
  << <<"Event Name", "eventName">>, <<"Event Date", "eventDate">>,
     <<"Event Location", "eventLocation">>, <<"Salesperson Name", "salesperson">>,
     <<"Products", "products">> >>

\* The labels of the fields a prompt leaves empty, in the canonical order
ExpectedLabels(text) ==
  LET missing == SelectSeq(CanonicalLabels,
                           LAMBDA l : PromptDetails(text)[l[2]] = <<>>)
  IN  [i \in 1..Len(missing) |-> missing[i][1]]

\* The field labels an entry names, in the order of its text
NamedLabels(m) ==
  SelectSeq(m.text, LAMBDA part : \E i \in 1..Len(CanonicalLabels) :
                                    part = CanonicalLabels[i][1])

\* What a prompt that lacks a field is answered with: one entry of the
\* assistant that names the missing fields, and no extraction.
GuidanceEffect(text) ==
  /\ \E m \in {messages'[Len(messages')]} :
       /\ messages' = Append(messages, m)
       /\ m.sender = "ai"
       /\ NamedLabels(m) = ExpectedLabels(text)
  /\ isLoading' = FALSE
  /\ extraction' = Null
  /\ pendingApproval' = Null
  /\ created' = created

\* C5 as the specification states it: every prompt with at least one missing
\* required field yields exactly one guidance entry naming exactly the missing
\* fields in canonical order, and no extraction is attempted.
C5_GuidanceForEveryIncompletePrompt ==
  [][\A text \in Prompts, t \in ClockReadings :
       (SendPrompt(text, t) /\ ExpectedLabels(text) # <<>>)
         => GuidanceEffect(text)]_vars

\* C5: a prompt that is not blank and lacks at least one required field yields
\* exactly one guidance entry naming exactly the missing fields in canonical
\* order, and no extraction is attempted (loading stays false, no
\* PendingApproval is created).
C5_GuidanceForIncompletePrompt ==
  [][\A text \in Prompts, t \in ClockReadings :
       (SendPrompt(text, t) /\ Trim(text) # <<>> /\ ExpectedLabels(text) # <<>>)
         => GuidanceEffect(text)]_vars

\* "Make slides for Dubai" has been answered: the guidance entry names the four
\* fields it lacks, and nothing is being extracted.
C5_Witness ==
  /\ lastOp = "send_guidance"
  /\ NamedLabels(messages[Len(messages)])
       = <<"Event Date", "Event Location", "Salesperson Name", "Products">>
  /\ ~isLoading
  /\ extraction = Null
  /\ pendingApproval = Null

(***************************************************************************)
(* Properties of the content extraction.                                   *)
(***************************************************************************)
\* C6: the ExtractionResult placed in PendingApproval holds exactly one
\* ProductContent per requested product name, in the order of the names in the
\* prompt, on the live path and on the fallback paths.
C6_OneContentPerName ==
  [][created' = created + 1 =>
       /\ Has(pendingApproval'.multiProductData, "products")
       /\ Len(pendingApproval'.multiProductData.products)
            = Len(extraction.productNames)
       /\ \A i \in 1..Len(extraction.productNames) :
            pendingApproval'.multiProductData.products[i].product_name
              = extraction.productNames[i]]_vars

(***************************************************************************)
(* Properties of the polling.                                              *)
(***************************************************************************)
\* A step in which a callback of job j has seen an answer that ends the job
ObservedStep(j) ==
  /\ j \in 1..Len(pollers)
  /\ Len(pollers') = Len(pollers)
  /\ Len(pollers'[j].observed) = Len(pollers[j].observed) + 1

\* The answer seen in that step
LastObserved(j) == pollers'[j].observed[Len(pollers'[j].observed)]

\* The entries job j has appended that offer a download
SuccessEntries(job) ==
  {e \in 1..Len(job.entries) : Has(job.entries[e], "pptDownloadUrl")}

\* The entries job j has appended that report the failure of the generation
FailureEntries(job) ==
  {e \in 1..Len(job.entries) : job.entries[e].text[1] = "PPT generation failed: "}

\* C7: when a status query reports completed with a download reference,
\* exactly one success entry has been appended for the job and no generation
\* marker is left in the log, whatever the latency of the queries, overlapping
\* queries included.
C7_OneSuccessEntry ==
  [][\A j \in 1..Len(pollers) :
       (/\ ObservedStep(j)
        /\ StatusBranch(LastObserved(j)) = "success")
         => /\ Cardinality(SuccessEntries(pollers'[j])) = 1
            /\ \A e \in SuccessEntries(pollers'[j]) :
                 pollers'[j].entries[e].pptDownloadUrl
                   = LastObserved(j).status.download_url
            /\ WithoutGenerating(messages') = messages']_vars

\* C8: when a status query reports failed, exactly one failure entry has been
\* appended for the job, with the message of the service or, when it gives
\* none, a generic one, and no generation marker is left in the log.
C8_OneFailureEntry ==
  [][\A j \in 1..Len(pollers) :
       (/\ ObservedStep(j)
        /\ ~LastObserved(j).raised
        /\ LastObserved(j).status.status = "failed")
         => /\ Cardinality(FailureEntries(pollers'[j])) = 1
            /\ \A e \in FailureEntries(pollers'[j]) :
                 pollers'[j].entries[e].text[2]
                   = IF Has(LastObserved(j).status, "error_message")
                       THEN LastObserved(j).status.error_message[1]
                       ELSE "Unknown error"
            /\ WithoutGenerating(messages') = messages']_vars

\* C9: when a status query raises a transport error, the polling of the job
\* stops, a failure entry is appended to the log, and no further status query
\* is issued for the job.
C9_TransportErrorEndsPolling ==
  [][\A j \in 1..Len(pollers) :
       /\ (ObservedStep(j) /\ LastObserved(j).raised)
            => /\ ~pollers'[j].active
               /\ \E m \in {messages'[Len(messages')]} :
                    /\ messages' = Append(WithoutGenerating(messages), m)
                    /\ m.text = <<"Error checking PPT status: ">>
                                  \o LastObserved(j).error
       /\ (\E o \in 1..Len(pollers[j].observed) : pollers[j].observed[o].raised)
            => (Len(pollers') = Len(pollers) =>
                  pollers'[j].inFlight <= pollers[j].inFlight)]_vars

\* C10: once the status service has reported a terminal status for a job, the
\* polling of the job has stopped and a terminal entry has been appended;
\* polling never continues past an observed terminal status.
C10_StopsAtTerminalStatus ==
  \A j \in 1..Len(pollers) :
    (\E o \in 1..Len(pollers[j].observed) : ~pollers[j].observed[o].raised)
      => /\ ~pollers[j].active
         /\ pollers[j].entries # <<>>

(***************************************************************************)
(* Properties of the jobs in progress.                                     *)
(***************************************************************************)
\* The jobs that were submitted and whose polling has not ended
ActiveJobs == {j \in 1..Len(pollers) : pollers[j].active}

\* C11: between the successful submission of a job and the terminal entry of
\* that job no prompt starts an extraction: an extraction call is started only
\* when no submitted job is still being polled.
C11_NoExtractionWhileJobActive ==
  [][(extraction = Null /\ extraction' # Null) => ActiveJobs = {}]_vars

\* C12: at most one job is active (submitted and not yet observed terminal),
\* so at most one polling loop runs.
C12_AtMostOneActiveJob ==
  Cardinality(ActiveJobs) <= 1

\* A step of one of the six operations of the user: sending a prompt,
\* approving, rejecting, beginning, saving or cancelling an edit
OperationStep ==
  /\ steps' = steps + 1
  /\ lastOp' \in {"send_ignored", "send_guidance", "send_extract",
                  "approval_ignored", "approve", "reject",
                  "begin_edit", "save_edit", "cancel_edit"}

\* An extraction call or a generation-submission call is outstanding
CallOutstanding == extraction # Null \/ submissions # <<>>

\* C13: while an extraction call or a generation-submission call is
\* outstanding, none of sendPrompt, approve, reject, beginEdit, saveEdit and
\* cancelEdit takes effect: the log, the PendingApproval, the EditingSession
\* and the calls in flight stay as they are.
C13_NoOperationWhileCallOutstanding ==
  [][(CallOutstanding /\ OperationStep) =>
       UNCHANGED <<messages, pendingApproval, editingContent,
                   editingProductIndex, extraction, submissions,
                   resolutions>>]_vars

(***************************************************************************)
(* Properties of the editing of a held extraction result.                  *)
(***************************************************************************)
\* The products of the extraction result the PendingApproval holds
PendingProducts == pendingApproval.multiProductData.products

\* A step in which handleSaveEdit ran with an EditingSession open on a
\* PendingApproval
SaveStep ==
  /\ steps' = steps + 1
  /\ lastOp' = "save_edit"
  /\ editingContent # Null
  /\ pendingApproval # Null

\* C14: beginEdit(i) followed by saveEdit of the working copy x leaves the
\* extraction result of the PendingApproval with x at index i, every other
\* index as it was and the same number of products, and closes the
\* EditingSession.
C14_SaveEditEffect ==
  [][SaveStep =>
       /\ pendingApproval' # Null
       /\ Len(PendingProducts') = Len(PendingProducts)
       /\ PendingProducts'[editingProductIndex] = editingContent
       /\ \A idx \in 1..Len(PendingProducts) :
            idx # editingProductIndex => PendingProducts'[idx] = PendingProducts[idx]
       /\ editingContent' = Null
       /\ editingProductIndex' = NoIndex]_vars

\* An edit of the first product was saved: the first product of the
\* PendingApproval carries the overview that was typed, the second does not,
\* and no EditingSession is open.
C14_Witness ==
  /\ lastOp = "save_edit"
  /\ pendingApproval # Null
  /\ editingContent = Null
  /\ editingProductIndex = NoIndex
  /\ Len(PendingProducts) = 2
  /\ PendingProducts[1].overview \in EditValues
  /\ PendingProducts[2].overview \notin EditValues

\* A step of an edit that is not saved: the Edit button of a card, a keystroke
\* in a field of the working copy, or the Cancel button
UnsavedEditStep ==
  /\ steps' = steps + 1
  /\ \/ \E card \in ProductCards : BeginEdit(card[1], card[2])
     \/ \E value \in EditValues : ChangeOverview(value)
     \/ \E field \in ListFields, value \in EditValues :
          \E idx \in PointIndices(field) : ChangePoint(field, idx, value)
     \/ CancelEdit

\* C15: beginEdit(i), any number of changes to the working copy and then
\* cancelEdit() leave the extraction result of the PendingApproval and the
\* log, with the entry that displays it, as they were, and cancelEdit closes
\* the EditingSession.
C15_CancelEditEffect ==
  [][/\ UNCHANGED <<pendingApproval, messages>> \/ ~UnsavedEditStep
     /\ \/ editingContent' = Null /\ editingProductIndex' = NoIndex
        \/ steps' = steps
        \/ ~CancelEdit]_vars

\* An edit of a product of the PendingApproval was cancelled: the session is
\* closed, and the PendingApproval is still the entry of the log that
\* displays it, with nothing of what may have been typed.
C15_Witness ==
  /\ lastOp = "cancel_edit"
  /\ pendingApproval # Null
  /\ editingContent = Null
  /\ editingProductIndex = NoIndex
  /\ \E k \in 1..Len(messages) : messages[k] = pendingApproval
  /\ \A idx \in 1..Len(PendingProducts) :
       PendingProducts[idx].overview \notin EditValues

\* C16: neither approve() nor reject() takes effect while an EditingSession is
\* open: the two buttons are not on the page during an edit.
C16_NoResolutionWhileEditing ==
  [][(ApproveStep \/ RejectStep) => editingContent = Null]_vars

\* An EditingSession is open on a product of a PendingApproval whose entry
\* asks for approval, and nothing has resolved it.
C16_Witness ==
  /\ editingContent # Null
  /\ pendingApproval # Null
  /\ EditingCardShown
  /\ \E k \in 1..Len(messages) :
       messages[k] = pendingApproval /\ Flag(messages[k], "approvalRequired")
  /\ ResolutionsOf(pendingSerial) = {}

\* A step of handleEditContent
BeginStep ==
  /\ steps' = steps + 1
  /\ lastOp' = "begin_edit"

\* C17: beginEdit(j) while an EditingSession is open fails: the session, its
\* index and its working copy stay as they are.
C17_BeginEditFailsWhileEditing ==
  [][(editingContent # Null /\ BeginStep) =>
       UNCHANGED <<editingContent, editingProductIndex>>]_vars

\* C18: an open EditingSession (a working copy that is not null) implies a
\* PendingApproval; beginEdit opens no session on an entry whose approval has
\* been resolved.
C18_EditingImpliesPendingApproval ==
  editingContent # Null => pendingApproval # Null

\* A step of beginEdit, saveEdit or cancelEdit
EditStep ==
  /\ steps' = steps + 1
  /\ lastOp' \in {"begin_edit", "save_edit", "cancel_edit"}

\* The product names of an extraction entry, in the order of its products
ProductNames(msg) ==
  [idx \in 1..Len(msg.multiProductData.products) |->
     msg.multiProductData.products[idx].product_name]

\* C19: the product_name at each index of the extraction result of the
\* PendingApproval never changes under beginEdit, saveEdit and cancelEdit,
\* from whichever entry of the log the edit was begun.
C19_ProductNamesKept ==
  [][(EditStep /\ pendingApproval # Null) =>
       /\ pendingApproval' # Null
       /\ ProductNames(pendingApproval') = ProductNames(pendingApproval)]_vars

\* C20: once the submission for an approved PendingApproval has been called,
\* the approved extraction result is not changed again: no later saveEdit
\* changes the products of the entry whose content was submitted.
C20_ApprovedContentKept ==
  [][(/\ pendingApproval # Null
      /\ ApprovalsOf(pendingSerial) # {}
      /\ pendingApproval' # Null) =>
       /\ PendingProducts' = PendingProducts
       /\ \A k \in 1..Len(messages) :
            messages[k].id = pendingApproval.id =>
              \E n \in 1..Len(messages') : messages'[n] = messages[k]]_vars

(***************************************************************************)
(* Properties of the failures of the services.                             *)
(***************************************************************************)
\* A step in which a call of generatePPT ended with an Error: the call is no
\* longer outstanding and no task was named.
SubmissionFailedStep ==
  /\ Len(submissions') = Len(submissions) - 1
  /\ pollers' = pollers

\* C21: when the generation submission fails, one failure entry is appended,
\* no polling is started, the PendingApproval becomes none, and the page is
\* again in a state in which a complete prompt can be sent.
C21_SubmissionFailureReturnsToIdle ==
  [][SubmissionFailedStep =>
       /\ \E m \in {messages'[Len(messages')]} :
            /\ messages' = Append(messages, m)
            /\ SubSeq(m.text, 1, 1) = <<"Failed to start PPT generation: ">>
       /\ pollers' = pollers
       /\ pendingApproval' = Null
       /\ ~InputDisabled']_vars

\* A step in which the call of the extraction service returns to the send
\* handler, the service having been called (the page did not take the backend
\* for unavailable) and having ended as the outcome says
ExtractionReturnStep(outcome) ==
  /\ extraction # Null
  /\ extraction' = Null
  /\ extraction.backendStatus # "unavailable"
  /\ \E t \in ClockReadings : ExtractionDone(outcome, t)

\* The last entry of the log after the step is new and reports that the
\* extraction failed
ExtractionFailureAppended ==
  \E m \in {messages'[Len(messages')]} :
    /\ messages' = Append(messages, m)
    /\ SubSeq(m.text, 1, 1) = <<"Failed to extract product content: ">>

\* C22: when the live extraction service answers with a response that is not
\* a success, the extraction raises and the send handler turns it into a
\* failure entry of the log: no PendingApproval is created and the loading
\* flag is cleared.
C22_NonSuccessBecomesFailureEntry ==
  [][ExtractionReturnStep("not_ok") =>
       /\ ExtractionFailureAppended
       /\ pendingApproval' = Null
       /\ created' = created
       /\ isLoading' = FALSE]_vars

\* A step in which the extraction returns to the send handler with the
\* service unreachable: the page took the backend for unavailable when the
\* prompt was sent, or the call found the probe negative or the transport
\* failing
UnreachableReturnStep ==
  /\ extraction # Null
  /\ extraction' = Null
  /\ \/ extraction.backendStatus = "unavailable"
     \/ \E outcome \in {"transport_error", "probe_unavailable"} :
          \E t \in ClockReadings : ExtractionDone(outcome, t)

\* C23: when the extraction service is unreachable at the time of sendPrompt
\* (transport failure, or the liveness probe reporting unavailable), the
\* extraction does not raise and returns the locally generated content: the
\* send of a complete prompt ends with a PendingApproval that holds this
\* content, shown by the page as the new last entry of the log, and with no
\* failure entry.
C23_UnreachableServiceFallsBack ==
  [][UnreachableReturnStep =>
       /\ pendingApproval' # Null
       /\ created' = created + 1
       /\ messages' = Append(messages, pendingApproval')
       /\ pendingApproval'.multiProductData
            \in {LocalFallbackContent(extraction.productNames),
                 getSimulatedContent(extraction.productNames)}
       /\ mounted']_vars

(***************************************************************************)
(* Properties of the conversation log.                                     *)
(***************************************************************************)
\* The ids of the entries of a log, in the order of the log
Ids(msgs) == [k \in 1..Len(msgs) |-> msgs[k].id]

\* The ids of the entries of a log that are no generation markers
IdsOfLasting(msgs) ==
  LET lasting == SelectSeq(msgs, LAMBDA m : ~Flag(m, "isGenerating"))
  IN  [k \in 1..Len(lasting) |-> lasting[k].id]

\* s is a subsequence of t: the elements of s occur in t in the same order
RECURSIVE IsSubsequence(_, _)
IsSubsequence(s, t) ==
  IF s = <<>> THEN TRUE
  ELSE IF t = <<>> THEN FALSE
  ELSE IF Head(s) = Head(t) THEN IsSubsequence(Tail(s), Tail(t))
  ELSE IsSubsequence(s, Tail(t))

\* C24 as stated: no entry is ever removed from the log and the order of the
\* entries never changes: the ids of the log before a step form a subsequence
\* of the ids of the log after it.
C24_NothingEverRemoved ==
  [][messages' = messages \/ IsSubsequence(Ids(messages), Ids(messages'))]_vars

\* C24, amended: no entry other than a generation marker is ever removed and
\* the order of the entries never changes: the ids of the entries that are no
\* generation markers before a step form a subsequence of the ids of such
\* entries after it.
C24_OnlyMarkersRemoved ==
  [][messages' = messages
       \/ IsSubsequence(IdsOfLasting(messages), IdsOfLasting(messages'))]_vars

\* A job has ended on the page: its terminal entry is in the log, the entry
\* asking for the approval is still there and the generation marker is gone.
C24_Witness ==
  /\ \E j \in 1..Len(pollers) : pollers[j].entries # <<>>
  /\ \E k \in 1..Len(messages) : Flag(messages[k], "approvalRequired")
  /\ \A k \in 1..Len(messages) : ~Flag(messages[k], "isGenerating")

\* C25: in every reachable state the entries of the log have pairwise
\* distinct ids, whatever the clock reads when the entries are appended.
C25_DistinctIds ==
  \A k, l \in 1..Len(messages) : k # l => messages[k].id # messages[l].id

\* The entries of the log that carry the id of the PendingApproval
EntriesOfPending == {k \in 1..Len(messages) : messages[k].id = pendingApproval.id}

\* Entry k of the log keeps everything but its extraction result in the step
SameButExtractionResult(k) ==
  /\ DOMAIN messages'[k] = DOMAIN messages[k]
  /\ \A f \in DOMAIN messages[k] \ {"multiProductData"} :
       messages'[k][f] = messages[k][f]

\* C26: saveEdit changes exactly one entry of the log, the one whose id is the
\* id of the PendingApproval, and only its extraction result (id, sender,
\* text, timestamp and approval marker are kept); every other entry and the
\* length of the log are unchanged.
C26_SaveEditChangesOneEntry ==
  [][SaveStep =>
       /\ Len(messages') = Len(messages)
       /\ Cardinality(EntriesOfPending) = 1
       /\ \A k \in 1..Len(messages) :
            IF k \in EntriesOfPending
              THEN /\ SameButExtractionResult(k)
                   /\ messages'[k] = pendingApproval'
              ELSE messages'[k] = messages[k]]_vars

(***************************************************************************)
(* Properties of the generation request.                                   *)
(***************************************************************************)
\* The text of the last prompt the user has sent that was taken for
\* extraction: the send that produced the PendingApproval, since no prompt is
\* sent while one is held
SubmittedPrompt ==
  LET sent == SelectSeq(messages, LAMBDA m : m.sender = "user")
  IN  sent[Len(sent)].text

\* C27: the prompt passed to the generation-submission service on approval is
\* the free-text prompt the user submitted with the send that produced the
\* approved extraction result.
C27_PromptPassedIsSubmittedPrompt ==
  [][ApproveStep =>
       submissions'[Len(submissions')].request.prompt = SubmittedPrompt]_vars

(***************************************************************************)
(* Properties of a status query that does not end the job.                 *)
(***************************************************************************)
\* The answer of the status service with a status that is not terminal
NonTerminalAnswer(status) == [raised |-> FALSE, status |-> [status |-> status]]

\* C28: while a status query reports a status that is not terminal (pending
\* or processing), the polling callback leaves the log as it is and the
\* polling of the job stays active.
C28_NonTerminalStatusChangesNothing ==
  [][\A j \in 1..Len(pollers) : \A status \in {"pending", "processing"} :
       \/ /\ messages' = messages
          /\ Len(pollers') = Len(pollers)
          /\ pollers'[j].active = pollers[j].active
       \/ ~\E t \in ClockReadings :
              PollResponse(j, NonTerminalAnswer(status), t)]_vars

\* A status query of a job has reported a status that is not terminal: the
\* job is still polled, no answer that ends it has been seen, and the
\* generation marker is still in the log.
C28_Witness ==
  /\ lastOp = "poll_waiting"
  /\ \E j \in 1..Len(pollers) :
       /\ pollers[j].active
       /\ pollers[j].observed = <<>>
       /\ pollers[j].entries = <<>>
  /\ \E k \in 1..Len(messages) : Flag(messages[k], "isGenerating")

(***************************************************************************)
(* Properties of the fallback generator.                                   *)
(***************************************************************************)
\* The layout that alternates with the position, counted from 0
AlternatingLayout(index) ==
  CASE index % 3 = 0 -> "single"
    [] index % 3 = 1 -> "side_by_side"
    [] index % 3 = 2 -> "grid"

\* A step in which the extraction returns the content of the fallback
\* generator of the service client to the send handler
SimulatedReturnStep ==
  /\ extraction # Null
  /\ extraction' = Null
  /\ pendingApproval' # Null
  /\ pendingApproval'.multiProductData = getSimulatedContent(extraction.productNames)

\* C29: in the content of the fallback generator the image_layout of the
\* product at position i, counted from 0, is single when i mod 3 = 0,
\* side_by_side when i mod 3 = 1 and grid when i mod 3 = 2, for a product
\* list of any length.
C29_LayoutAlternatesModuloThree ==
  [][SimulatedReturnStep =>
       \A i \in 1..Len(PendingProducts') :
         PendingProducts'[i].image_layout = AlternatingLayout(i - 1)]_vars

(***************************************************************************)
(* The liveness probe.                                                     *)
(***************************************************************************)
\* The request has completed within the 5 seconds: fetch has settled and, of
\* a success response, the body has arrived.
RequestCompletesInTime(w) ==
  /\ w.fetchAt <= HealthTimeout
  /\ w.response = "ok" => w.bodyAt <= HealthTimeout

\* C30: the liveness probe never raises; once the 5 time units have passed
\* without the request completing it has returned available = false; it
\* returns available = false when the transport fails or the response is not
\* a success, and available = true only on a success response; and the page
\* records what it returned.
C30_ProbeBoundedAndNeverRaises ==
  health # Null =>
    /\ health.pc \in {"fetch", "json", "returned"}
    /\ (health.elapsed > HealthTimeout /\ ~RequestCompletesInTime(health.wire))
         => /\ health.pc = "returned"
            /\ ~healthCheck(health.outcome).backend_available
    /\ (health.pc = "returned" /\ health.wire.response # "ok")
         => ~healthCheck(health.outcome).backend_available
    /\ probes = 0
         => backendStatus = IF healthCheck(health.outcome).backend_available
                            THEN "available" ELSE "unavailable"

(***************************************************************************)
(* Properties of the interpretation of given prompts.                      *)
(***************************************************************************)
\* C31: for the input "Make slides for Dubai", sendPrompt appends a guidance
\* entry whose list of missing fields is exactly Event Name, Event Date,
\* Salesperson Name, Products: Event Location is extracted and not listed.
C31_DubaiLacksAllButLocation ==
  [][\A t \in ClockReadings :
       SendPrompt(PromptDubai, t)
         => /\ messages' = Append(messages, messages'[Len(messages')])
            /\ NamedLabels(messages'[Len(messages')])
                 = <<"Event Name", "Event Date", "Salesperson Name", "Products">>
            /\ PromptDetails(PromptDubai).eventLocation # <<>>]_vars

\* The product names of the reference prompt
ReferenceProducts ==
  << <<"A","I"," ","P","h","o","t","o","b","o","o","t","h">>,
     <<"K","i","n","e","t","i","c"," ","C","e","i","l","i","n","g">>,
     <<"K","i","n","e","t","i","c"," ","B","l","o","o","m","i","n","g"," ",
       "F","l","o","w","e","r">> >>

\* C32: for the reference prompt the interpreted request is complete, so that
\* sending it starts the extraction, and its product list is exactly
\* AI Photobooth, Kinetic Ceiling, Kinetic Blooming Flower.
C32_ReferencePromptInterpreted ==
  [][\A t \in ClockReadings :
       (referencePrompt \in DOMAIN interpretation /\ SendPrompt(referencePrompt, t))
         => /\ MissingFields(PromptDetails(referencePrompt)) = <<>>
            /\ extraction' # Null
            /\ extraction'.productNames = ReferenceProducts]_vars

(***************************************************************************)
(* Properties of a resolution without a PendingApproval.                   *)
(***************************************************************************)
\* C33: approve() or reject() invoked when no PendingApproval exists is a
\* no-op: the log is unchanged, no submission call is made and no polling
\* loop is started (and there is still no PendingApproval).
C33_ResolutionWithoutPendingIsNoOp ==
  [][\/ pendingApproval # Null
     \/ UNCHANGED <<messages, submissions, pollers, pendingApproval>>
     \/ ~(\E t \in ClockReadings : Approve(t) \/ Reject(t))]_vars

\* One of the two buttons of an entry whose PendingApproval is gone has been
\* pressed, and nothing has come of it.
C33_Witness ==
  /\ lastOp = "approval_ignored"
  /\ pendingApproval = Null
  /\ resolutions # <<>>
  /\ submissions = <<>>

(***************************************************************************)
(* Properties of the record of the prompts.                                *)
(***************************************************************************)
\* C34: every prompt accepted by sendPrompt, complete or incomplete, is
\* recorded as a user entry of the log, and that user entry precedes the
\* system entry (guidance, approval request or failure) that answers it: the
\* step of the send appends the user entry, before any entry of the assistant
\* it appends.
C34_EveryAcceptedPromptRecorded ==
  [][\A text \in Prompts, t \in ClockReadings :
       (SendPrompt(text, t) /\ SendAccepted(text))
         => \E k \in (Len(messages) + 1)..Len(messages') :
              /\ messages'[k].sender = "user"
              /\ messages'[k].text = text
              /\ \A l \in (Len(messages) + 1)..(k - 1) :
                   messages'[l].sender # "ai"]_vars

(***************************************************************************)
(* Properties of the product list of a prompt.                             *)
(***************************************************************************)
\* The text after the first "products:" of a prompt
AfterProducts(text) ==
  LET lit == <<"p","r","o","d","u","c","t","s",":">>
      starts == {pos \in 1..(Len(text) - Len(lit) + 1) :
                   SubSeq(text, pos, pos + Len(lit) - 1) = lit}
      first == CHOOSE pos \in starts : \A q \in starts : pos <= q
  IN  SubSeq(text, first + Len(lit), Len(text))

\* Its comma-separated items in their order, each trimmed, the empty ones
\* dropped, the repeated ones kept
ItemsAfterProducts(text) ==
  LET parts == SplitComma(AfterProducts(text))
  IN  SelectSeq([i \in 1..Len(parts) |-> Trim(parts[i])], LAMBDA p : p # <<>>)

\* C35: the product list of an interpreted prompt is the comma-separated items
\* of the text after "products:" in their original order, each trimmed, with
\* empty items dropped and duplicate names preserved; it is the list the
\* extraction is started with.
C35_ProductListIsItemsAfterProducts ==
  [][\A text \in DOMAIN interpretation, t \in ClockReadings :
       SendPrompt(text, t)
         => /\ PromptDetails(text).products = ItemsAfterProducts(text)
            /\ extraction' # Null
                 => extraction'.productNames = ItemsAfterProducts(text)]_vars

(***************************************************************************)
(* Properties of the end of the polling.                                   *)
(***************************************************************************)
\* C36: once the polling of a job has stopped, by a success entry, a failure
\* entry or a transport-error entry, no further entry for that job is ever
\* appended to the log, even when other status queries for the job were in
\* flight when the polling stopped.
C36_NoEntryAfterPollingStopped ==
  [][\A j \in 1..Len(pollers) :
       ~pollers[j].active
         => /\ pollers'[j].entries = pollers[j].entries
            /\ \/ messages' = messages
               \/ \A o \in StatusOutcomes(pollers[j].taskId), t \in ClockReadings :
                    ~PollResponse(j, o, t)]_vars

(***************************************************************************)
(* Properties of the generation markers.                                   *)
(***************************************************************************)
\* The places of the generation markers in a log
Markers(msgs) == {k \in 1..Len(msgs) : Flag(msgs[k], "isGenerating")}

\* C37: when the polling of job J reaches a terminal outcome, only the marker
\* of J is removed from the log and the marker of any other job that is still
\* active remains: while another job is polled or submitted, the step that
\* appends the terminal entry of J removes at most one marker.
C37_OnlyOwnMarkerRemoved ==
  [][\A j \in 1..Len(pollers) :
       (/\ pollers'[j].entries # pollers[j].entries
        /\ \/ submissions # <<>>
           \/ \E i \in 1..Len(pollers) : i # j /\ pollers[i].active)
         => Cardinality(Markers(messages')) >= Cardinality(Markers(messages)) - 1]_vars

\* C38: the log contains a generation marker only while a generation
\* submission call or a polling loop is outstanding: after a submission
\* failure, a terminal status or a polling transport error no marker remains.
C38_MarkerOnlyWhileJobOutstanding ==
  Markers(messages) # {}
    => \/ submissions # <<>>
       \/ \E j \in 1..Len(pollers) : pollers[j].active

(***************************************************************************)
(* Properties of the prompt box.                                           *)
(***************************************************************************)
\* C39: the prompt input is never permanently disabled.  In every reachable
\* state of the rendered page in which no extraction or submission call is
\* outstanding, an open EditingSession has its saveEdit and cancelEdit
\* available, and a disabled prompt box comes with an action of the user that
\* can lead to its being enabled: approve or reject of the PendingApproval,
\* or saveEdit or cancelEdit of the EditingSession.
C39_PromptInputNeverStuck ==
  (mounted /\ extraction = Null /\ submissions = <<>>)
    => /\ editingContent # Null => EditingCardShown
       /\ InputDisabled
            => \/ ApprovalButtonsShown /\ ApprovalAccepted
               \/ EditingCardShown

(***************************************************************************)
(* Properties of the end of an extraction.                                 *)
(***************************************************************************)
\* C40: every sendPrompt that starts an extraction clears the loading flag
\* when the extraction returns a result or raises, and it ends in exactly one
\* of two states of the page: a PendingApproval holding the result, with its
\* approval-request entry appended to the log, or no PendingApproval, with a
\* failure entry appended.
C40_ExtractionEndsInOneOfTwoStates ==
  [][\A outcome \in ExtractionOutcomes, t \in ClockReadings :
       ExtractionDone(outcome, t)
         => /\ isLoading' = FALSE
            /\ mounted'
            /\ \/ /\ pendingApproval' # Null
                  /\ Flag(pendingApproval', "approvalRequired")
                  /\ pendingApproval'.multiProductData
                       = extractProductContent(extraction.productNames,
                                               extraction.backendStatus,
                                               outcome).value
                  /\ messages' = Append(messages, pendingApproval')
               \/ /\ pendingApproval' = Null
                  /\ ExtractionFailureAppended]_vars

=============================================================================
